---------------------------- MODULE Spec2Model ----------------------------
(***************************************************************************)
(* Model of the data normalizer (process_dataframe_dates) and of the chart *)
(* pipeline (visualization.py, app.py).                                    *)
(*                                                                         *)
(* Library behaviour the code relies on is modelled after pandas 2.x:      *)
(*   - a column of Python strings has dtype 'object';                      *)
(*   - pd.to_datetime without a format guesses ONE format from the first   *)
(*     value and applies it to every value; when no format can be guessed  *)
(*     every value is parsed on its own (dateutil);                        *)
(*   - errors='raise' (default) fails when one value does not parse,       *)
(*     errors='coerce' turns such a value into NaT;                        *)
(*   - DataFrame.sort_values uses kind='quicksort', which is documented    *)
(*     as not stable: the order of rows with equal keys is unspecified.    *)
(***************************************************************************)
EXTENDS Integers, Sequences, FiniteSets, TLC

VARIABLES
    nrm,          \* the call of process_dataframe_dates under study
    dirExists,    \* whether the directory 'visualizations' exists
    files,        \* the chart files written under 'visualizations' (their paths)
    summaryFile,  \* content of visualizations/visualization_summary.md (<<>> = no file)
    lastSummary,  \* history: the document of the most recent completed summary write
    result,       \* history: the last operation and what its caller got
    requests,     \* history: the number of chart requests served
    chart         \* one call of a chart function followed to its figure

vars == <<nrm, dirExists, files, summaryFile, lastSummary, result, requests, chart>>

-----------------------------------------------------------------------------
(* Bounds *)

MaxRows == 3   \* rows of an input table
MaxArtifacts == 2   \* length of the artifact list given to the summary
MaxSymbols == 2   \* symbols of a comparative chart
MaxRequests == 3   \* operations of the chart pipeline in one run
MaxWindow == 3   \* largest window of a moving average

-----------------------------------------------------------------------------
(* Date strings.  A string is its layout (shape) and its two numeric       *)
(* fields a, b in textual order (for the layouts with a month abbreviation *)
(* the abbreviation counts as the number of its month).  The year is fixed.*)

Str(shape, a, b) == [shape |-> shape, a |-> a, b |-> b]

\* missing value of a datetime column
NaT == 0

MonthsPerYear == 12
MaxDayOfMonth == 31

\* a calendar date of the fixed year as a number ordered like the calendar
DateVal(month, day) == month * (MaxDayOfMonth + 1) + day

\* which layout a strptime format matches and which field holds the month
FormatSpec(fmt) ==
    CASE fmt = "%Y-%m-%d" -> [shape |-> "YYYY-NN-NN",  monthFirst |-> TRUE]
      [] fmt = "%m/%d/%Y" -> [shape |-> "NN/NN/YYYY",  monthFirst |-> TRUE]
      [] fmt = "%d/%m/%Y" -> [shape |-> "NN/NN/YYYY",  monthFirst |-> FALSE]
      [] fmt = "%Y%m%d"   -> [shape |-> "YYYYNNNN",    monthFirst |-> TRUE]
      [] fmt = "%b %d %Y" -> [shape |-> "Mon NN YYYY", monthFirst |-> TRUE]
      [] fmt = "%d-%b-%Y" -> [shape |-> "NN-Mon-YYYY", monthFirst |-> FALSE]
      [] fmt = "%d-%m-%Y" -> [shape |-> "NN-NN-YYYY",  monthFirst |-> FALSE]
      [] fmt = "%m-%d-%Y" -> [shape |-> "NN-NN-YYYY",  monthFirst |-> TRUE]
      [] OTHER            -> [shape |-> "no format",   monthFirst |-> TRUE]

\* the date of a month and a day, NaT when they are out of range
ValidDate(month, day) ==
    IF month >= 1 /\ month <= MonthsPerYear /\ day >= 1 /\ day <= MaxDayOfMonth
    THEN DateVal(month, day)
    ELSE NaT

DateOf(s, f) ==
    IF s.shape = f.shape
    THEN ValidDate(IF f.monthFirst THEN s.a ELSE s.b, IF f.monthFirst THEN s.b ELSE s.a)
    ELSE NaT

\* strict parse of one string under one format: the date, or NaT
strptime(s, fmt) == DateOf(s, FormatSpec(fmt))

\* the formats format inference considers for a layout, month-first before
\* day-first (dayfirst=False)
GuessCandidates(shape) ==
    CASE shape = "YYYY-NN-NN"  -> <<"%Y-%m-%d">>
      [] shape = "NN/NN/YYYY"  -> <<"%m/%d/%Y", "%d/%m/%Y">>
      [] shape = "YYYYNNNN"    -> <<"%Y%m%d">>
      [] shape = "Mon NN YYYY" -> <<"%b %d %Y">>
      [] shape = "NN-Mon-YYYY" -> <<"%d-%b-%Y">>
      [] shape = "NN-NN-YYYY"  -> <<"%m-%d-%Y", "%d-%m-%Y">>
      [] OTHER -> <<>>

NoFormat == "none"

PickFirst(c, ok) ==
    IF ok = {} THEN NoFormat ELSE c[CHOOSE i \in ok : \A j \in ok : i <= j]

FirstFit(s, c) == PickFirst(c, {i \in 1..Len(c) : strptime(s, c[i]) # NaT})

\* the format inferred from one string, NoFormat when none fits
guess_datetime_format(s) == FirstFit(s, GuessCandidates(s.shape))

\* the format applied to the column: the one given, else the one inferred
\* from the first value
UsedFormat(column, fmt) ==
    IF fmt # NoFormat \/ column = <<>> THEN fmt ELSE guess_datetime_format(column[1])

\* every value under the format used; with no format, every value on its own
ParseColumn(column, used) ==
    [i \in 1..Len(column) |->
        strptime(column[i],
                 IF used # NoFormat THEN used ELSE guess_datetime_format(column[i]))]

Checked(values, errors) ==
    IF errors = "raise" /\ \E i \in 1..Len(values) : values[i] = NaT
    THEN [ok |-> FALSE, values |-> <<>>]
    ELSE [ok |-> TRUE, values |-> values]

\* pd.to_datetime(column, format=fmt, errors=errors) on a column of strings
to_datetime(column, fmt, errors) ==
    Checked(ParseColumn(column, UsedFormat(column, fmt)), errors)

-----------------------------------------------------------------------------
(* process_dataframe_dates.  A table (DataFrame) is its set of column      *)
(* names, the dtype of its date column and the date column itself; a row   *)
(* is known by its position in the input (its index label), which the      *)
(* output carries along.                                                   *)

Frame(columns, dtype, date, close) ==
    [columns |-> columns, dtype |-> dtype, date |-> date, close |-> close]

\* date_formats with the two slash formats exchanged
date_formats_eu_first ==
    <<"%Y-%m-%d", "%d/%m/%Y", "%m/%d/%Y", "%Y%m%d", "%b %d %Y", "%d-%b-%Y", "%d-%m-%Y">>

\* the explicit formats, in the order the loop tries them
date_formats ==
    <<"%Y-%m-%d", "%m/%d/%Y", "%d/%m/%Y", "%Y%m%d", "%b %d %Y", "%d-%b-%Y", "%d-%m-%Y">>

AutoStep == "auto"
CoerceStep == "coerce"

Raised(error, attempts) ==
    [raised |-> TRUE, error |-> error, index |-> <<>>, date |-> <<>>,
     attempts |-> attempts, accepted |-> "none", warnings |-> <<>>]

Parsed(index, date, attempts, accepted, warnings) ==
    [raised |-> FALSE, error |-> <<>>, index |-> index, date |-> date,
     attempts |-> attempts, accepted |-> accepted, warnings |-> warnings]

Positions(n) == [i \in 1..n |-> i]

\* the for loop over date_formats from position i on: the formats tried and
\* the first one under which every value parses
RECURSIVE TryFormats(_, _)

\* one iteration: r is the outcome of to_datetime under date_formats[i]
TryFormat(column, i, r) ==
    IF r.ok
    THEN [found |-> TRUE, attempts |-> <<date_formats[i]>>, values |-> r.values]
    ELSE [TryFormats(column, i + 1) EXCEPT !.attempts = <<date_formats[i]>> \o @]

TryFormats(column, i) ==
    IF i > Len(date_formats)
    THEN [found |-> FALSE, attempts |-> <<>>, values |-> <<>>]
    ELSE TryFormat(column, i, to_datetime(column, date_formats[i], "raise"))

\* dropna that drops nothing
dropna_keeps_all(values) == Positions(Len(values))

\* df.dropna(subset=[date_column]): the positions whose date is not NaT
dropna(values) ==
    SelectSeq(Positions(Len(values)), LAMBDA i : values[i] # NaT)

ErrNoColumn == <<"Date column '", "date", "' not found in the dataframe">>
ErrAllUnparseable == "All date values were unparseable"
ErrUnableToParse == <<"Unable to parse date column: ", ErrAllUnparseable,
                      ". Please check the date format.">>

\* the rows kept, without the check for zero rows
KeepRows_unchecked(values, kept, attempts) ==
    Parsed(kept, [k \in 1..Len(kept) |-> values[kept[k]]], attempts, CoerceStep,
           IF Len(kept) < Len(values) THEN <<Len(values) - Len(kept)>> ELSE <<>>)

\* lines 59-66: the rows kept, the warning with the number dropped, and the
\* failure when none is left
KeepRows(values, kept, attempts) ==
    IF Len(kept) = 0
    THEN Raised(ErrUnableToParse, attempts)
    ELSE Parsed(kept, [k \in 1..Len(kept) |-> values[kept[k]]], attempts, CoerceStep,
                IF Len(kept) < Len(values) THEN <<Len(values) - Len(kept)>> ELSE <<>>)

DropUnparsed(values, attempts) == KeepRows(values, dropna(values), attempts)

\* the permissive step, reached when the loop ends without break
coerce_step(column, attempts) ==
    DropUnparsed(to_datetime(column, NoFormat, "coerce").values, attempts)

\* after the loop: t is what TryFormats found
AfterFormats(column, t) ==
    IF t.found
    THEN Parsed(Positions(Len(column)), t.values, <<AutoStep>> \o t.attempts,
                t.attempts[Len(t.attempts)], <<>>)
    ELSE coerce_step(column, <<AutoStep>> \o t.attempts \o <<CoerceStep>>)

\* after automatic parsing: auto is its outcome
AfterAuto(column, auto) ==
    IF auto.ok
    THEN Parsed(Positions(Len(column)), auto.values, <<AutoStep>>, AutoStep, <<>>)
    ELSE AfterFormats(column, TryFormats(column, 1))

\* everything before the sort
ParseDates(df, date_column) ==
    IF date_column \notin df.columns
    THEN Raised(ErrNoColumn, <<>>)
    ELSE IF df.dtype # "object"
    THEN Parsed(Positions(Len(df.date)), df.date, <<>>, "none", <<>>)
    ELSE AfterAuto(df.date, to_datetime(df.date, NoFormat, "raise"))

Arrangements(n) ==
    {p \in [1..n -> 1..n] : \A i, j \in 1..n : i # j => p[i] # p[j]}

\* sort_values that leaves the rows in input order
sort_values_input_order(date) == {Positions(Len(date))}

\* sort_values that also keeps only the first row of every date
sort_values_drop_duplicates(date) ==
    {p \in UNION {[1..k -> 1..Len(date)] : k \in 0..Len(date)} :
        /\ \A k \in 1..(Len(p) - 1) : date[p[k]] < date[p[k + 1]]
        /\ \A i \in 1..Len(date) : \E k \in 1..Len(p) :
              date[p[k]] = date[i] /\ p[k] <= i}

\* df.sort_values(date_column): every arrangement of the rows that is
\* non-decreasing by date (rows with equal dates come in an unspecified order)
sort_values(date) ==
    {p \in Arrangements(Len(date)) :
        \A k \in 1..(Len(date) - 1) : date[p[k]] <= date[p[k + 1]]}

\* the rows of parsed in the arrangement p
Reorder(parsed, p) ==
    [parsed EXCEPT !.index = [k \in 1..Len(p) |-> parsed.index[p[k]]],
                   !.date = [k \in 1..Len(p) |-> parsed.date[p[k]]]]

SortByDate(parsed) ==
    IF parsed.raised THEN {parsed}
    ELSE {Reorder(parsed, p) : p \in sort_values(parsed.date)}

\* the outcomes of process_dataframe_dates(df, date_column)
process_dataframe_dates(df, date_column) == SortByDate(ParseDates(df, date_column))

-----------------------------------------------------------------------------
(* Inputs of the normalizer *)

DateStrings ==
    { Str("YYYY-NN-NN", 1, 2),     \* "2023-01-02"
      Str("YYYY-NN-NN", 1, 1),     \* "2023-01-01"
      Str("NN/NN/YYYY", 1, 2),     \* "01/02/2023"  (Jan 2 in US, Feb 1 in EU order)
      Str("NN/NN/YYYY", 13, 2),    \* "13/02/2023"  (EU order only)
      Str("NN/NN/YYYY", 2, 13),    \* "02/13/2023"  (US order only)
      Str("YYYYNNNN", 1, 1),       \* "20230101"
      Str("Mon NN YYYY", 1, 2),    \* "Jan 02 2023"
      Str("NN-Mon-YYYY", 2, 1),    \* "02-Jan-2023"
      Str("NN-NN-YYYY", 13, 1),    \* "13-01-2023"
      Str("NN-NN-YYYY", 1, 2),     \* "01-02-2023"
      Str("text", 0, 0) }          \* "not-a-date"

TypedDates == {DateVal(1, 1), DateVal(1, 2)}

SeqsUpTo(S, n) == UNION {[1..k -> S] : k \in 0..n}

AllColumns == {"date", "open", "high", "low", "close", "volume"}

\* closing prices of n rows
Closes(n) == [i \in 1..n |-> 100 + 10 * i]

NormalizeInputs ==
    {Frame(AllColumns, "object", d, Closes(Len(d))) : d \in SeqsUpTo(DateStrings, MaxRows)}
    \cup {Frame(AllColumns, "datetime64[ns]", d, Closes(Len(d))) :
             d \in SeqsUpTo(TypedDates, MaxRows)}
    \cup {Frame(AllColumns \ {"date"}, "object", <<>>, <<>>),
          Frame((AllColumns \ {"date"}) \cup {"Date"}, "object", <<>>, <<>>)}

NormalizerIdle == nrm = [phase |-> "idle", df |-> <<>>, out |-> <<>>]

PipelineIdle ==
    /\ dirExists = FALSE
    /\ files = {}
    /\ summaryFile = <<>>
    /\ lastSummary = <<>>
    /\ result = [op |-> "none", outcome |-> "none", path |-> [dir |-> "", name |-> <<>>],
                 error |-> <<>>, norm |-> "not reached", wrote |-> FALSE,
                 replaced |-> FALSE]
    /\ requests = 0

ChartIdle == chart = [phase |-> "idle"]

InitNormalize ==
    /\ nrm \in {[phase |-> "called", df |-> df, out |-> <<>>] : df \in NormalizeInputs}
    /\ PipelineIdle
    /\ ChartIdle

Normalize ==
    /\ nrm.phase = "called"
    /\ \E out \in process_dataframe_dates(nrm.df, "date") :
          nrm' = [nrm EXCEPT !.phase = "returned", !.out = out]
    /\ UNCHANGED <<dirExists, files, summaryFile, lastSummary, result, requests, chart>>

NextNormalize == Normalize

SpecNormalize == InitNormalize /\ [][NextNormalize]_vars


-----------------------------------------------------------------------------
(* Files and the summary document.  A text assembled from pieces (an        *)
(* f-string, a concatenation) is the sequence of its pieces; a document is  *)
(* the sequence of its lines.                                               *)

vis_dir == "visualizations"

Path(dir, name) == [dir |-> dir, name |-> name]

NoPath == Path("", <<>>)

\* os.path.basename
basename(path) == path.name

\* the path as it is written into the document
PathText(path) == IF path.dir = "" THEN path.name ELSE <<path.dir, "/">> \o path.name

SummaryPath == Path(vis_dir, <<"visualization_summary.md">>)

Line(kind, n, text) == [kind |-> kind, n |-> n, text |-> text]

TitleLine(symbol) ==
    IF symbol # ""
    THEN Line("title", 0, <<"# ", symbol, " Stock Analysis">>)
    ELSE Line("title", 0, <<"# Stock Data Visualizations">>)

NoteLines(error_message) ==
    IF error_message # <<>>
    THEN <<Line("note", 0, <<"**Note:** ">> \o error_message)>>
    ELSE <<>>

\* enumerate from 0 instead of 1
ItemLines_from_zero(created_visualizations) ==
    [i \in 1..Len(created_visualizations) |->
        Line("item", i - 1, <<"[", basename(created_visualizations[i]), "](",
                              PathText(created_visualizations[i]), ")">>)]

\* for i, vis_path in enumerate(created_visualizations, 1)
ItemLines(created_visualizations) ==
    [i \in 1..Len(created_visualizations) |->
        Line("item", i, <<"[", basename(created_visualizations[i]), "](",
                          PathText(created_visualizations[i]), ")">>)]

ListingLines(created_visualizations, error_message) ==
    IF Len(created_visualizations) > 0
    THEN <<Line("intro", 0, <<"The following visualizations have been generated:">>)>>
         \o ItemLines(created_visualizations)
         \o <<Line("outro", 0, <<"To view these visualizations, open the HTML files in your web browser.">>)>>
    ELSE IF error_message = <<>>
    THEN <<Line("nothing", 0, <<"No visualizations were generated. Please check the data format and try again.">>)>>
    ELSE <<>>

\* the text generate_visualization_summary builds (lines 272-294); a symbol
\* or an error message that is None or empty is "" resp. <<>>
SummaryText(created_visualizations, symbol, error_message) ==
    <<TitleLine(symbol)>> \o NoteLines(error_message)
        \o ListingLines(created_visualizations, error_message)

\* open(path, 'a'): the new text after the old one
write_append(old, text) == old \o text

\* open(path, 'w') and f.write(text): the new text replaces the old one
write_w(old, text) == text

ErrMakedirs == <<"OSError", "makedirs">>
ErrWriteSummary == <<"OSError", "open visualization_summary.md">>
ErrWriteHtml == <<"OSError", "write_html">>

\* What the file system allows during one call: creating the directory
\* (asked for only while it does not exist), writing the chart, writing the
\* summary.
EnvsWithDir == [makedirs : {TRUE}, write_html : BOOLEAN, write_summary : BOOLEAN]

EnvsWithoutDir == [makedirs : BOOLEAN, write_html : BOOLEAN, write_summary : BOOLEAN]

Envs(dir) == IF dir THEN EnvsWithDir ELSE EnvsWithoutDir

\* ensure_visualization_dir() and with open(summary_path, 'w') as f:
\* f.write(text), from the directory (dir) and summary file (old) before
WriteSummary(text, dir, old, env) ==
    IF ~dir /\ ~env.makedirs
    THEN [raised |-> TRUE, error |-> ErrMakedirs, dirExists |-> FALSE,
          summaryFile |-> old, written |-> FALSE, text |-> text]
    ELSE IF ~env.write_summary
    THEN [raised |-> TRUE, error |-> ErrWriteSummary, dirExists |-> TRUE,
          summaryFile |-> old, written |-> FALSE, text |-> text]
    ELSE [raised |-> FALSE, error |-> <<>>, dirExists |-> TRUE,
          summaryFile |-> write_w(old, text), written |-> TRUE, text |-> text]

\* generate_visualization_summary: what it returns or raises and the summary
\* file after it
generate_visualization_summary(created_visualizations, symbol, error_message, dir, old, env) ==
    WriteSummary(SummaryText(created_visualizations, symbol, error_message), dir, old, env)

-----------------------------------------------------------------------------
(* generate_visualization_summary called on its own (SpecSummary) *)

ArtifactPaths == {Path("", <<"a.html">>), Path(vis_dir, <<"AAPL", "_volume.html">>)}

Symbols == {"", "AAPL"}

ErrorMessages == {<<>>, <<"boom">>}

SummaryCall(created_visualizations, symbol, error_message) ==
    [op |-> "generate_visualization_summary", created |-> created_visualizations,
     symbol |-> symbol, error |-> error_message]

\* the state after a call of generate_visualization_summary that ended as g
AfterSummary(call, g, old) ==
    [dirExists |-> g.dirExists,
     summaryFile |-> g.summaryFile,
     lastSummary |-> IF g.written THEN g.text ELSE lastSummary,
     result |-> [op |-> call.op, created |-> call.created, symbol |-> call.symbol,
                 error |-> IF g.raised THEN g.error ELSE call.error,
                 outcome |-> IF g.raised THEN "raised" ELSE "summary",
                 path |-> IF g.raised THEN NoPath ELSE SummaryPath,
                 replaced |-> g.written /\ old # <<>> /\ old # g.text]]

Summarize ==
    \E created \in SeqsUpTo(ArtifactPaths, MaxArtifacts), symbol \in Symbols,
       error_message \in ErrorMessages, env \in Envs(dirExists) :
       \E n \in {AfterSummary(SummaryCall(created, symbol, error_message),
                              generate_visualization_summary(created, symbol, error_message,
                                                             dirExists, summaryFile, env),
                              summaryFile)} :
          /\ dirExists' = n.dirExists
          /\ summaryFile' = n.summaryFile
          /\ lastSummary' = n.lastSummary
          /\ result' = n.result
          /\ UNCHANGED <<nrm, files, requests, chart>>

InitSummary == NormalizerIdle /\ PipelineIdle /\ ChartIdle

NextSummary == Summarize

SpecSummary == InitSummary /\ [][NextSummary]_vars

-----------------------------------------------------------------------------
(* String-encoded tables: pd.read_csv(io.StringIO(df), delim_whitespace=True).*)
(* A text is its header line (the column names) and its data lines, each a  *)
(* sequence of tokens; the empty string has no header line.  Data lines     *)
(* shorter than the header are not modelled.                                *)

Text(header, rows) == [header |-> header, rows |-> rows]

Num(v) == Str("number", v, 0)

EmptyFrame == Frame({}, "object", <<>>, <<>>)

ErrEmptyData == <<"EmptyDataError", "No columns to parse from file">>
ErrParser == <<"ParserError", "Error tokenizing data">>

Pos(header, name) == CHOOSE i \in 1..Len(header) : header[i] = name

\* the tokens of column name, <<>> when the table has no such column
ColumnTokens(text, name, offset) ==
    IF \E i \in 1..Len(text.header) : text.header[i] = name
    THEN [r \in 1..Len(text.rows) |-> text.rows[r][Pos(text.header, name) + offset]]
    ELSE <<>>

\* a column of tokens that all read as integers gets an integer dtype
AllCompact(tokens) ==
    tokens # <<>> /\ \A i \in 1..Len(tokens) : tokens[i].shape = "YYYYNNNN"

CompactNumber(s) == (2023 * 100 + s.a) * 100 + s.b

TypedFrame(columns, dates, closes) ==
    IF AllCompact(dates)
    THEN Frame(columns, "int64", [i \in 1..Len(dates) |-> CompactNumber(dates[i])],
               [i \in 1..Len(closes) |-> closes[i].a])
    ELSE Frame(columns, "object", dates, [i \in 1..Len(closes) |-> closes[i].a])

\* offset 1: every data line has one field more than the header, the first
\* field is the index
TableOf(text, offset) ==
    IF offset = 0 /\ \E r \in 1..Len(text.rows) : Len(text.rows[r]) > Len(text.header)
    THEN [raised |-> TRUE, error |-> ErrParser, frame |-> EmptyFrame]
    ELSE [raised |-> FALSE, error |-> <<>>,
          frame |-> TypedFrame({text.header[i] : i \in 1..Len(text.header)},
                               ColumnTokens(text, "date", offset),
                               ColumnTokens(text, "close", offset))]

read_csv(text) ==
    IF text.header = <<>>
    THEN [raised |-> TRUE, error |-> ErrEmptyData, frame |-> EmptyFrame]
    ELSE TableOf(text,
                 IF text.rows # <<>> /\ \A r \in 1..Len(text.rows) :
                                           Len(text.rows[r]) = Len(text.header) + 1
                 THEN 1 ELSE 0)

-----------------------------------------------------------------------------
(* The chart functions of visualization.py and their wrappers in app.py *)

WrappedKinds == {"line", "candlestick", "volume", "price_volume", "moving_average"}

ToolName(kind) ==
    CASE kind = "line"           -> "create_line_chart_tool"
      [] kind = "candlestick"    -> "create_candlestick_chart_tool"
      [] kind = "volume"         -> "create_volume_chart_tool"
      [] kind = "price_volume"   -> "create_price_volume_chart_tool"
      [] kind = "moving_average" -> "create_moving_average_chart_tool"

ErrorPrefix(kind) ==
    CASE kind = "line"           -> "Error creating line chart: "
      [] kind = "candlestick"    -> "Error creating candlestick chart: "
      [] kind = "volume"         -> "Error creating volume chart: "
      [] kind = "price_volume"   -> "Error creating price-volume chart: "
      [] kind = "moving_average" -> "Error creating moving average chart: "

ChartFileName(kind, symbol) ==
    CASE kind = "line"           -> <<symbol, "_price_trend.html">>
      [] kind = "candlestick"    -> <<symbol, "_candlestick.html">>
      [] kind = "volume"         -> <<symbol, "_volume.html">>
      [] kind = "price_volume"   -> <<symbol, "_price_volume.html">>
      [] kind = "moving_average" -> <<symbol, "_moving_averages.html">>
      [] kind = "comparative"    -> <<"comparative_analysis.html">>

ChartPath(kind, symbol) == Path(vis_dir, ChartFileName(kind, symbol))

\* the columns the figure of a chart reads
RequiredColumns(kind) ==
    CASE kind = "line"           -> {"close"}
      [] kind = "candlestick"    -> {"open", "high", "low", "close"}
      [] kind = "volume"         -> {"volume"}
      [] kind = "price_volume"   -> {"close", "volume"}
      [] kind = "moving_average" -> {"close"}
      [] kind = "comparative"    -> {"close"}

ErrKey == <<"KeyError", "column">>
ErrNotIterable == <<"TypeError", "object is not iterable">>
ErrWindow == <<"ValueError", "window must be an integer 0 or greater">>
ErrIndex == <<"IndexError", "single positional indexer is out-of-bounds">>

\* window_sizes: a list of integers, or a value that is no list
WindowSizes(iterable, sizes) == [iterable |-> iterable, sizes |-> sizes]

DefaultWindowSizes == WindowSizes(TRUE, <<20, 50>>)

\* the failure of building the figure, <<>> when there is none
RenderError(kind, frame, window_sizes) ==
    IF kind = "moving_average" /\ ~window_sizes.iterable THEN ErrNotIterable
    ELSE IF ~(RequiredColumns(kind) \subseteq frame.columns) THEN ErrKey
    ELSE IF kind = "moving_average"
            /\ \E i \in 1..Len(window_sizes.sizes) : window_sizes.sizes[i] < 0
    THEN ErrWindow
    ELSE <<>>

ChartFailed(error, norm, dir) ==
    [raised |-> TRUE, error |-> error, norm |-> norm, path |-> NoPath,
     dirExists |-> dir, wrote |-> FALSE]

ChartWritten(path) ==
    [raised |-> FALSE, error |-> <<>>, norm |-> "ok", path |-> path,
     dirExists |-> TRUE, wrote |-> TRUE]

\* fig.write_html(output_path); return output_path
WriteChart(path, render_error, env) ==
    IF render_error # <<>> THEN ChartFailed(render_error, "ok", TRUE)
    ELSE IF ~env.write_html THEN ChartFailed(ErrWriteHtml, "ok", TRUE)
    ELSE ChartWritten(path)

\* create_price_trend_chart, create_volume_chart, create_price_volume_chart,
\* create_moving_average_chart: out is what process_dataframe_dates gave
create_chart(kind, frame, out, symbol, window_sizes, dir, env) ==
    IF ~dir /\ ~env.makedirs THEN ChartFailed(ErrMakedirs, "not reached", FALSE)
    ELSE IF out.raised THEN ChartFailed(out.error, "raised", TRUE)
    ELSE WriteChart(ChartPath(kind, symbol), RenderError(kind, frame, window_sizes), env)

Result(op, outcome, path, error, norm, wrote, replaced) ==
    [op |-> op, outcome |-> outcome, path |-> path, error |-> error, norm |-> norm,
     wrote |-> wrote, replaced |-> replaced]

\* a failure that leaves the operation: nothing but the directory changes
Escaped(op, error, norm, dir) ==
    [dirExists |-> dir, files |-> files, summaryFile |-> summaryFile,
     lastSummary |-> lastSummary,
     result |-> Result(op, "raised", NoPath, error, norm, FALSE, FALSE)]

\* the chart function returned the path c.path
Returned_chart(op, c) ==
    [dirExists |-> c.dirExists, files |-> files \cup {c.path}, summaryFile |-> summaryFile,
     lastSummary |-> lastSummary,
     result |-> Result(op, "chart", c.path, <<>>, c.norm, TRUE, FALSE)]

\* the except branch: g is how generate_visualization_summary ended
AfterExcept(kind, c, error_msg, g) ==
    IF g.raised
    THEN Escaped(ToolName(kind), g.error, c.norm, g.dirExists)
    ELSE [dirExists |-> g.dirExists, files |-> files, summaryFile |-> g.summaryFile,
          lastSummary |-> g.text,
          result |-> Result(ToolName(kind), "summary", SummaryPath, error_msg, c.norm, FALSE,
                            summaryFile # <<>> /\ summaryFile # g.text)]

\* a wrapper without its try/except
AfterChart_no_except(kind, symbol, env, c) ==
    IF ~c.raised THEN Returned_chart(ToolName(kind), c)
    ELSE Escaped(ToolName(kind), c.error, c.norm, c.dirExists)

\* try: return create_..._chart(...)  except Exception as e: ... return
\* generate_visualization_summary([], symbol, error_msg)
AfterChart(kind, symbol, env, c) ==
    IF ~c.raised THEN Returned_chart(ToolName(kind), c)
    ELSE AfterExcept(kind, c, <<ErrorPrefix(kind)>> \o c.error,
                     generate_visualization_summary(<<>>, symbol,
                                                    <<ErrorPrefix(kind)>> \o c.error,
                                                    c.dirExists, summaryFile, env))

\* a wrapper from its first line on: df is the table read from the string
\* argument (or the table given)
ToolStep(kind, df, out, symbol, window_sizes, env) ==
    IF df.raised THEN Escaped(ToolName(kind), df.error, "not reached", dirExists)
    ELSE AfterChart(kind, symbol, env,
                    create_chart(kind, df.frame, out, symbol, window_sizes, dirExists, env))

\* if isinstance(df, str): df = pd.read_csv(...)
AsFrame(arg) ==
    IF arg.isStr THEN read_csv(arg.text)
    ELSE [raised |-> FALSE, error |-> <<>>, frame |-> arg.frame]

-----------------------------------------------------------------------------
(* Inputs of the chart operations *)

GoodDates == <<Str("YYYY-NN-NN", 1, 2), Str("YYYY-NN-NN", 1, 1)>>

ChartFrames ==
    { Frame(AllColumns, "object", GoodDates, Closes(2)),
      Frame(AllColumns \ {"date"}, "object", <<>>, Closes(2)),
      Frame(AllColumns, "object", <<Str("text", 0, 0)>>, Closes(1)),
      Frame({"date", "open", "high", "low"}, "object", GoodDates, <<>>) }

\* the tables given to create_comparative_chart
CompFrames ==
    { Frame(AllColumns, "object", GoodDates, Closes(2)),
      Frame(AllColumns \ {"date"}, "object", <<>>, Closes(2)),
      Frame(AllColumns, "object", <<>>, <<>>) }

HeaderLine == <<"date", "open", "high", "low", "close", "volume">>

DataLine(date, close) == <<date, Num(close), Num(close), Num(close), Num(close), Num(close)>>

ChartTexts ==
    { Text(<<>>, <<>>),
      Text(HeaderLine, <<DataLine(GoodDates[1], 110), DataLine(GoodDates[2], 100)>>),
      Text(HeaderLine, <<DataLine(GoodDates[1], 110),
                         DataLine(GoodDates[2], 100) \o <<Num(1)>>>>) }

ToolArgs ==
    {[isStr |-> FALSE, frame |-> f, text |-> Text(<<>>, <<>>)] : f \in ChartFrames}
    \cup {[isStr |-> TRUE, frame |-> EmptyFrame, text |-> t] : t \in ChartTexts}

WindowArgs ==
    {DefaultWindowSizes, WindowSizes(TRUE, <<2>>), WindowSizes(TRUE, <<-1>>),
     WindowSizes(FALSE, <<>>)}

ToolSymbol == "AAPL"

\* the arguments of a wrapper as tables (if isinstance(df, str): ...), each
\* with what process_dataframe_dates can give for it
ToolCalls ==
    UNION {{[df |-> AsFrame(arg), out |-> out] :
              out \in process_dataframe_dates(AsFrame(arg).frame, "date")} :
           arg \in ToolArgs}

\* the state after an operation of the pipeline
Serve(n) ==
    /\ dirExists' = n.dirExists
    /\ files' = n.files
    /\ summaryFile' = n.summaryFile
    /\ lastSummary' = n.lastSummary
    /\ result' = n.result
    /\ requests' = requests + 1
    /\ UNCHANGED <<nrm, chart>>

create_line_chart_tool ==
    /\ requests < MaxRequests
    /\ \E call \in ToolCalls, env \in Envs(dirExists) :
          Serve(ToolStep("line", call.df, call.out, ToolSymbol, DefaultWindowSizes, env))

create_candlestick_chart_tool ==
    /\ requests < MaxRequests
    /\ \E call \in ToolCalls, env \in Envs(dirExists) :
          Serve(ToolStep("candlestick", call.df, call.out, ToolSymbol, DefaultWindowSizes,
                         env))

create_volume_chart_tool ==
    /\ requests < MaxRequests
    /\ \E call \in ToolCalls, env \in Envs(dirExists) :
          Serve(ToolStep("volume", call.df, call.out, ToolSymbol, DefaultWindowSizes, env))

create_price_volume_chart_tool ==
    /\ requests < MaxRequests
    /\ \E call \in ToolCalls, env \in Envs(dirExists) :
          Serve(ToolStep("price_volume", call.df, call.out, ToolSymbol, DefaultWindowSizes,
                         env))

create_moving_average_chart_tool ==
    /\ requests < MaxRequests
    /\ \E call \in ToolCalls, env \in Envs(dirExists), window_sizes \in WindowArgs :
          Serve(ToolStep("moving_average", call.df, call.out, ToolSymbol, window_sizes, env))

-----------------------------------------------------------------------------
(* create_comparative_chart; it has no wrapper in app.py *)

CompSymbols == <<"AAPL", "MSFT", "GOOGL", "AMZN", "META">>

\* data_dict: symbols and their tables, in insertion order
CompDicts ==
    UNION {{[i \in 1..k |-> [symbol |-> CompSymbols[i], frame |-> fs[i]]] :
              fs \in [1..k -> CompFrames]} : k \in 0..MaxSymbols}

\* what process_dataframe_dates can give for the tables of data_dict
CompOutcomes(data_dict) ==
    {outs \in [1..Len(data_dict) ->
                 UNION {process_dataframe_dates(f, "date") : f \in CompFrames}] :
        \A i \in 1..Len(data_dict) :
            outs[i] \in process_dataframe_dates(data_dict[i].frame, "date")}

CompCalls ==
    UNION {{[data_dict |-> d, outs |-> outs] : outs \in CompOutcomes(d)} : d \in CompDicts}

\* for symbol, df in data_dict.items(): the first failure from entry i on
RECURSIVE CompLoop(_, _, _)
CompLoop(data_dict, outs, i) ==
    IF i > Len(data_dict) THEN [error |-> <<>>, norm |-> "ok"]
    ELSE IF outs[i].raised THEN [error |-> outs[i].error, norm |-> "raised"]
    ELSE IF ~(RequiredColumns("comparative") \subseteq data_dict[i].frame.columns)
    THEN [error |-> ErrKey, norm |-> "ok"]
    ELSE IF Len(outs[i].index) = 0 THEN [error |-> ErrIndex, norm |-> "ok"]
    ELSE CompLoop(data_dict, outs, i + 1)

CompWrite(loop, env) ==
    IF loop.error # <<>> THEN ChartFailed(loop.error, loop.norm, TRUE)
    ELSE IF ~env.write_html THEN ChartFailed(ErrWriteHtml, "ok", TRUE)
    ELSE ChartWritten(ChartPath("comparative", ""))

comparative_chart(data_dict, outs, dir, env) ==
    IF ~dir /\ ~env.makedirs THEN ChartFailed(ErrMakedirs, "not reached", FALSE)
    ELSE CompWrite(CompLoop(data_dict, outs, 1), env)

ComparativeStep(c) ==
    IF c.raised THEN Escaped("create_comparative_chart", c.error, c.norm, c.dirExists)
    ELSE Returned_chart("create_comparative_chart", c)

create_comparative_chart ==
    /\ requests < MaxRequests
    /\ \E call \in CompCalls, env \in Envs(dirExists) :
          Serve(ComparativeStep(comparative_chart(call.data_dict, call.outs, dirExists, env)))

-----------------------------------------------------------------------------
(* process_user_query: at the end of the visualization task its output is   *)
(* written to output_file, which is the path of the summary.                *)

TaskOutput == <<Line("task_output", 0, <<"raw output of the visualization task">>)>>

SaveTaskOutput(env) ==
    IF (~dirExists /\ ~env.makedirs) \/ ~env.write_summary
    THEN Escaped("process_user_query",
                 IF ~dirExists /\ ~env.makedirs THEN ErrMakedirs ELSE ErrWriteSummary,
                 "not reached", dirExists \/ env.makedirs)
    ELSE [dirExists |-> TRUE, files |-> files,
          summaryFile |-> write_w(summaryFile, TaskOutput),
          lastSummary |-> TaskOutput,
          result |-> Result("process_user_query", "result", SummaryPath, <<>>, "not reached",
                            FALSE, summaryFile # <<>> /\ summaryFile # TaskOutput)]

process_user_query ==
    /\ requests < MaxRequests
    /\ \E env \in Envs(dirExists) : Serve(SaveTaskOutput(env))

Init == NormalizerIdle /\ PipelineIdle /\ ChartIdle

Next ==
    \/ create_line_chart_tool
    \/ create_candlestick_chart_tool
    \/ create_volume_chart_tool
    \/ create_price_volume_chart_tool
    \/ create_moving_average_chart_tool
    \/ create_comparative_chart
    \/ process_user_query

Spec == Init /\ [][Next]_vars

-----------------------------------------------------------------------------
(* Properties of process_dataframe_dates (checked under SpecNormalize) *)

Returned == nrm.phase = "returned"
ReturnedSeries == Returned /\ ~nrm.out.raised
StringDated == "date" \in nrm.df.columns /\ nrm.df.dtype = "object"
Last(s) == s[Len(s)]

\* the value the permissive parse gives each input row
PermissiveValues == to_datetime(nrm.df.date, NoFormat, "coerce").values

\* C1: whenever process_dataframe_dates returns, the returned records are
\* non-decreasing by date, whichever parse step produced the dates.
C1_SortedByDate ==
    ReturnedSeries =>
        \A k \in 1..(Len(nrm.out.date) - 1) : nrm.out.date[k] <= nrm.out.date[k + 1]

\* a series from the permissive step whose rows had to be rearranged
C1_Witness ==
    /\ ReturnedSeries
    /\ nrm.out.accepted = CoerceStep
    /\ Len(nrm.out.index) >= 2
    /\ nrm.out.index[1] > nrm.out.index[2]

StepOrder ==
    <<"auto", "%Y-%m-%d", "%m/%d/%Y", "%d/%m/%Y", "%Y%m%d", "%b %d %Y", "%d-%b-%Y",
      "%d-%m-%Y", "coerce">>

\* whether a parse step succeeds on the whole column
StepSucceeds(step, column) ==
    IF step = "auto" THEN to_datetime(column, NoFormat, "raise").ok
    ELSE IF step = "coerce" THEN \E i \in 1..Len(column) : PermissiveValues[i] # NaT
    ELSE \A i \in 1..Len(column) : strptime(column[i], step) # NaT

\* C2: on a string date column the steps tried are an initial part of the
\* fixed order automatic, ISO, US slash, EU slash, compact, abbreviated
\* month, dashed abbreviated month, dashed EU, permissive; every step before
\* the last tried one failed on the column, the step accepted is the last
\* one tried and all values parse under it, and nothing is tried after it.
C2_StepOrder ==
    (Returned /\ StringDated) =>
        LET a == nrm.out.attempts
        IN  /\ Len(a) >= 1 /\ Len(a) <= Len(StepOrder)
            /\ \A k \in 1..Len(a) : a[k] = StepOrder[k]
            /\ \A k \in 1..(Len(a) - 1) : ~StepSucceeds(a[k], nrm.df.date)
            /\ StepSucceeds(Last(a), nrm.df.date) <=> ~nrm.out.raised
            /\ ~nrm.out.raised => nrm.out.accepted = Last(a)

\* the EU slash format is accepted after automatic parsing, ISO and US slash
\* failed, US slash on a column of which it parses one value
C2_Witness ==
    /\ ReturnedSeries /\ StringDated
    /\ nrm.out.accepted = "%d/%m/%Y"
    /\ \E i \in 1..Len(nrm.df.date) : strptime(nrm.df.date[i], "%m/%d/%Y") # NaT

C4_AllUnparseableFails ==
    (Returned /\ StringDated /\ Len(nrm.df.date) >= 1
        /\ \A i \in 1..Len(nrm.df.date) : PermissiveValues[i] = NaT) =>
        /\ nrm.out.raised
        /\ nrm.out.error = ErrUnableToParse
        /\ \E k \in 1..Len(nrm.out.error) : nrm.out.error[k] = ErrAllUnparseable
        /\ nrm.out.index = <<>>

\* two unparseable values: the call has failed with that error
C4_Witness ==
    /\ Returned /\ StringDated
    /\ Len(nrm.df.date) = 2
    /\ nrm.out.raised
    /\ nrm.out.error = ErrUnableToParse

\* C9 (as claimed): rows with equal dates keep their input order.
C9_StableSort ==
    ReturnedSeries =>
        \A i, j \in 1..Len(nrm.out.date) :
            (i < j /\ nrm.out.date[i] = nrm.out.date[j]) => nrm.out.index[i] < nrm.out.index[j]

Occurrences(s, v) == Cardinality({k \in 1..Len(s) : s[k] = v})

\* C10 (as claimed): no two returned records carry the same date.
C10_DatesUnique ==
    ReturnedSeries =>
        \A i, j \in 1..Len(nrm.out.date) : i # j => nrm.out.date[i] # nrm.out.date[j]

\* C10 (amended): a date occurs in the returned series as many times as it
\* occurs among the parsed dates of the rows kept: rows with equal dates are
\* neither removed nor merged.
C10_DuplicatesKept ==
    ReturnedSeries =>
        LET before == ParseDates(nrm.df, "date").date
        IN  /\ Len(nrm.out.date) = Len(before)
            /\ \A k \in 1..Len(before) :
                  Occurrences(nrm.out.date, before[k]) = Occurrences(before, before[k])

\* a returned series in which one date occurs twice
C10_Witness ==
    /\ ReturnedSeries
    /\ \E i, j \in 1..Len(nrm.out.date) : i # j /\ nrm.out.date[i] = nrm.out.date[j]

-----------------------------------------------------------------------------
(* Properties of generate_visualization_summary (checked under SpecSummary) *)

SummaryWritten ==
    result.op = "generate_visualization_summary" /\ result.outcome = "summary"

LinesOfKind(doc, kind) == SelectSeq(doc, LAMBDA l : l.kind = kind)

\* C7: in the document written by generate_visualization_summary the error
\* message appears exactly when an error is given (with or without
\* artifacts); the listing appears exactly when the artifact list is not
\* empty and then holds one entry per artifact, in input order, numbered
\* 1, 2, ...; the "nothing generated" notice appears exactly when there are
\* neither artifacts nor an error.
C7_SummaryContent ==
    SummaryWritten =>
        LET doc == summaryFile
            notes == LinesOfKind(doc, "note")
            items == LinesOfKind(doc, "item")
            created == result.created
        IN  /\ Len(notes) = (IF result.error # <<>> THEN 1 ELSE 0)
            /\ \A k \in 1..Len(notes) :
                  SubSeq(notes[k].text, 2, Len(notes[k].text)) = result.error
            /\ Len(LinesOfKind(doc, "intro")) = (IF created # <<>> THEN 1 ELSE 0)
            /\ Len(items) = Len(created)
            /\ \A k \in 1..Len(items) :
                  /\ items[k].n = k
                  /\ items[k].text[2] = basename(created[k])
                  /\ items[k].text[4] = PathText(created[k])
            /\ Len(LinesOfKind(doc, "nothing")) =
                  (IF created = <<>> /\ result.error = <<>> THEN 1 ELSE 0)

\* a summary written for two artifacts together with an error
C7_Witness ==
    /\ SummaryWritten
    /\ Len(result.created) = 2
    /\ result.created[1] # result.created[2]
    /\ result.error # <<>>

-----------------------------------------------------------------------------
(* Properties of the chart operations (checked under Spec) *)

ToolNames == {ToolName(kind) : kind \in WrappedKinds}

ChartOps == ToolNames \cup {"create_comparative_chart"}

\* the error note of the summary file is the text of result.error
NoteCarriesError ==
    LinesOfKind(summaryFile, "note") = NoteLines(result.error)

\* C5 (as claimed): every chart operation ends by returning a chart path or
\* the path of a summary that carries the error text; no failure leaves the
\* operation.
C5_AlwaysReturnsArtifact ==
    result.op \in ChartOps =>
        \/ result.outcome = "chart" /\ result.path \in files
        \/ /\ result.outcome = "summary"
           /\ result.path = SummaryPath
           /\ result.error # <<>>
           /\ NoteCarriesError

NormalizationErrors == {ErrNoColumn, ErrUnableToParse}

\* the error message a wrapper gives to the summary is its prefix followed
\* by the text of a normalization error
PrefixedNormalizationError ==
    \E kind \in WrappedKinds, error \in NormalizationErrors :
        /\ result.op = ToolName(kind)
        /\ result.error = <<ErrorPrefix(kind)>> \o error

\* C6 (as claimed): a normalization error met while serving a chart request
\* reaches the caller of the request as a failure.
C6_NormalizationErrorPropagates ==
    (result.op \in ChartOps /\ result.norm = "raised") => result.outcome = "raised"

\* how a request ended that met a normalization error
NormalizationErrorReported ==
    /\ result.outcome # "chart"
    /\ ~result.wrote
    /\ result.op = "create_comparative_chart" =>
          result.outcome = "raised" /\ result.error \in NormalizationErrors
    /\ result.op \in ToolNames =>
          \/ /\ result.outcome = "summary"
             /\ result.path = SummaryPath
             /\ PrefixedNormalizationError
             /\ NoteCarriesError
          \/ result.outcome = "raised" /\ result.error = ErrWriteSummary

\* C6 (amended): a request that meets a normalization error writes no chart
\* file and returns no chart path.  create_comparative_chart lets the error
\* reach its caller.  The five wrapped tools catch it as they catch a
\* rendering failure: they write a summary whose note is the tool's prefix
\* followed by the text of the normalization error and return the path of
\* the summary; only when the summary cannot be written does a failure reach
\* the caller, and it is the failure of that write.
C6_NormalizationErrorReported ==
    [][(result'.op \in ChartOps /\ result'.norm = "raised") =>
          (files' = files /\ NormalizationErrorReported')]_vars

\* a wrapped tool has turned a normalization error into a summary
C6_Witness ==
    /\ result.op \in ToolNames
    /\ result.norm = "raised"
    /\ result.outcome = "summary"
    /\ PrefixedNormalizationError

\* C8: after any sequence of requests the summary file holds exactly the text
\* of the most recent write of a summary (by generate_visualization_summary
\* or as the output file of the visualization task) and nothing of earlier
\* ones; the summary is at its fixed path, which is the path returned, and
\* is no chart file.
C8_SummaryReplaced ==
    /\ summaryFile = lastSummary
    /\ SummaryPath \notin files
    /\ result.outcome \in {"summary", "result"} =>
          result.path = SummaryPath /\ summaryFile # <<>>
    /\ (result.op \in ToolNames /\ result.outcome = "summary") =>
          \E kind \in WrappedKinds :
              /\ result.op = ToolName(kind)
              /\ summaryFile = SummaryText(<<>>, ToolSymbol, result.error)

\* a summary has been written over a different earlier one
C8_Witness ==
    /\ result.op \in ToolNames
    /\ result.outcome = "summary"
    /\ result.replaced
    /\ requests >= 2

-----------------------------------------------------------------------------
(* The figures of create_moving_average_chart and create_comparative_chart. *)
(* A float that is the quotient of two integers is kept as a reduced        *)
(* fraction; NaN is the missing value of a float column.                    *)

NaN == [num |-> 0, den |-> 0]

Abs(a) == IF a < 0 THEN 0 - a ELSE a

RECURSIVE GCD(_, _)
GCD(a, b) == IF b = 0 THEN a ELSE GCD(b, a % b)

Reduced(a, b, g) == [num |-> a \div g, den |-> b \div g]

\* a / b for b > 0
Fraction(a, b) == Reduced(a, b, GCD(Abs(a), b))

Float(v) == Fraction(v, 1)

\* df['close'] in the order of the rows as they were given
close_column_input_order(df, out) == [k \in 1..Len(out.index) |-> df.close[k]]

\* df['close'] of the frame process_dataframe_dates returned: the closes of
\* the rows kept, in the order of out.index
close_column(df, out) == [k \in 1..Len(out.index) |-> df.close[out.index[k]]]

\* the running sum of a rolling window at position i: each value is added
\* when it enters the window and subtracted when it leaves
RECURSIVE RollSum(_, _, _)
RollSum(values, window, i) ==
    IF i = 0 THEN 0
    ELSE RollSum(values, window, i - 1) + values[i]
            - (IF i > window THEN values[i - window] ELSE 0)

\* the observations in the window at position i
RollCount(window, i) == IF i < window THEN i ELSE window

\* rolling(window).mean() with min_periods=1
rolling_mean_min_periods_1(values, window) ==
    [i \in 1..Len(values) |-> Fraction(RollSum(values, window, i), RollCount(window, i))]

\* .rolling(window=window).mean() for window >= 1: min_periods is the window
rolling_mean(values, window) ==
    [i \in 1..Len(values) |->
        IF RollCount(window, i) < window THEN NaN
        ELSE Fraction(RollSum(values, window, i), RollCount(window, i))]

\* go.Scatter(x=..., y=..., name=...)
Scatter(name, x, y) == [name |-> name, x |-> x, y |-> y]

\* the trace of one window (lines 203-209)
MovingAverageTrace(date, close, window) ==
    Scatter(<<window, "-day MA">>, date, rolling_mean(close, window))

MovingAverageTraces(date, close, sizes) ==
    <<Scatter(<<"Closing Price">>, date, [k \in 1..Len(close) |-> Float(close[k])])>>
    \o [j \in 1..Len(sizes) |-> MovingAverageTrace(date, close, sizes[j])]

\* the figure create_moving_average_chart builds from the frame df and the
\* outcome out of process_dataframe_dates
moving_average_figure(df, out, window_sizes) ==
    MovingAverageTraces(out.date, close_column(df, out), window_sizes.sizes)

-----------------------------------------------------------------------------
(* create_moving_average_chart called on its own (SpecMovingAverage) *)

SeriesDates ==
    { Str("YYYY-NN-NN", 1, 1), Str("YYYY-NN-NN", 1, 2), Str("YYYY-NN-NN", 1, 3),
      Str("text", 0, 0) }

\* closing prices of n rows, rising or falling in the order given
SeriesCloses(n) ==
    {[i \in 1..n |-> 10 * i], [i \in 1..n |-> 10 * (n + 1 - i)]}

\* window sizes from 1 on (a window of 0 is not among the inputs)
WindowInputs ==
    {DefaultWindowSizes, WindowSizes(FALSE, <<>>)}
    \cup {WindowSizes(TRUE, sizes) : sizes \in SeqsUpTo(1..MaxWindow, 2)}

MovingAverageCall(df, window_sizes) ==
    [phase |-> "called", op |-> "create_moving_average_chart", df |-> df,
     window_sizes |-> window_sizes]

\* the call after the chart function ended as c
ChartReturned(call, out, c, traces) ==
    [phase |-> "returned", op |-> call.op, df |-> call.df,
     window_sizes |-> call.window_sizes, out |-> out, raised |-> c.raised,
     error |-> c.error, path |-> c.path, traces |-> IF c.raised THEN <<>> ELSE traces]

ChartDone(call, out, c, traces) ==
    /\ chart' = ChartReturned(call, out, c, traces)
    /\ dirExists' = c.dirExists
    /\ files' = IF c.raised THEN files ELSE files \cup {c.path}
    /\ UNCHANGED <<nrm, summaryFile, lastSummary, result, requests>>

create_moving_average_chart ==
    /\ chart.phase = "called"
    /\ \E out \in process_dataframe_dates(chart.df, "date"), env \in Envs(dirExists) :
          ChartDone(chart, out,
                    create_chart("moving_average", chart.df, out, ToolSymbol,
                                 chart.window_sizes, dirExists, env),
                    IF out.raised \/ ~chart.window_sizes.iterable THEN <<>>
                    ELSE moving_average_figure(chart.df, out, chart.window_sizes))

InitMovingAverage ==
    /\ NormalizerIdle
    /\ PipelineIdle
    /\ \E date \in SeqsUpTo(SeriesDates, MaxRows), window_sizes \in WindowInputs :
          \E close \in SeriesCloses(Len(date)) :
             chart = MovingAverageCall(Frame(AllColumns, "object", date, close),
                                       window_sizes)

NextMovingAverage == create_moving_average_chart

SpecMovingAverage == InitMovingAverage /\ [][NextMovingAverage]_vars

-----------------------------------------------------------------------------
(* Properties of create_moving_average_chart (checked under                 *)
(* SpecMovingAverage)                                                       *)

FigureBuilt(op) == chart.phase = "returned" /\ chart.op = op /\ ~chart.raised

\* values[lo] + ... + values[hi]
RECURSIVE SumRange(_, _, _)
SumRange(values, lo, hi) ==
    IF lo > hi THEN 0 ELSE values[lo] + SumRange(values, lo + 1, hi)

\* the dates and closes of the rows kept of df, in the order of index
KeptDates(df, index) ==
    [k \in 1..Len(index) |-> to_datetime(df.date, NoFormat, "coerce").values[index[k]]]

KeptCloses(df, index) == [k \in 1..Len(index) |-> df.close[index[k]]]

NonDecreasing(s) == \A k \in 1..(Len(s) - 1) : s[k] <= s[k + 1]

\* y is the mean of the trailing window of closes at every position from
\* the window-th on and missing before
TrailingMeans(y, closes, window) ==
    /\ Len(y) = Len(closes)
    /\ \A i \in 1..Len(closes) :
          IF i < window THEN y[i] = NaN
          ELSE /\ y[i].den > 0
               /\ y[i].num * window = y[i].den * SumRange(closes, i - window + 1, i)

\* C11: the figure of the moving-average chart has one line per window size
\* w; its value at the i-th record of the date-sorted series is missing (not
\* zero) while fewer than w records have been seen and otherwise the
\* arithmetic mean of the w closes ending at that record; the series the
\* means are taken over is the one sorted by date, not the one given.
C11_MovingAverage ==
    FigureBuilt("create_moving_average_chart") =>
        LET sizes == chart.window_sizes.sizes
            closes == KeptCloses(chart.df, chart.out.index)
        IN  /\ Len(chart.traces) = Len(sizes) + 1
            /\ chart.traces[1].x = KeptDates(chart.df, chart.out.index)
            /\ NonDecreasing(chart.traces[1].x)
            /\ chart.traces[1].y = [k \in 1..Len(closes) |-> Float(closes[k])]
            /\ \A j \in 1..Len(sizes) :
                  /\ chart.traces[j + 1].x = chart.traces[1].x
                  /\ TrailingMeans(chart.traces[j + 1].y, closes, sizes[j])

\* closes 30, 20, 10 given latest date first: window 2 gives missing, 15, 25
C11_Witness ==
    /\ FigureBuilt("create_moving_average_chart")
    /\ chart.df.close = <<30, 20, 10>>
    /\ chart.out.index = <<3, 2, 1>>
    /\ chart.window_sizes.sizes = <<2>>
    /\ chart.traces[2].y = <<NaN, Float(15), Float(25)>>

-----------------------------------------------------------------------------
(* create_comparative_chart followed to its figure (SpecComparative) *)

\* (close / first_price - 1) * 100, operation by operation, for
\* first_price > 0
Minus1(q) == Fraction(q.num - q.den, q.den)

Times100(q) == Fraction(q.num * 100, q.den)

PercentChange(close, first_price) == Times100(Minus1(Fraction(close, first_price)))

\* the change is taken from the last close of the series
normalized_from_last(close) ==
    [k \in 1..Len(close) |-> PercentChange(close[k], close[Len(close)])]

\* first_price = df['close'].iloc[0]; df['normalized'] = ...
normalized(close) == [k \in 1..Len(close) |-> PercentChange(close[k], close[1])]

\* the trace of one symbol (lines 243-247)
ComparativeTrace(entry, out) ==
    Scatter(<<entry.symbol>>, out.date, normalized(close_column(entry.frame, out)))

comparative_figure(data_dict, outs) ==
    [i \in 1..Len(data_dict) |-> ComparativeTrace(data_dict[i], outs[i])]

ComparativeDates ==
    {Str("YYYY-NN-NN", 1, 1), Str("YYYY-NN-NN", 1, 2), Str("YYYY-NN-NN", 1, 3)}

\* date columns of pairwise different dates, and one of two equal dates
ComparativeDateColumns ==
    {d \in SeqsUpTo(ComparativeDates, MaxRows) :
        \A i, j \in 1..Len(d) : i # j => d[i] # d[j]}
    \cup {<<Str("YYYY-NN-NN", 1, 1), Str("YYYY-NN-NN", 1, 1)>>}

\* closing prices of n rows, all positive
ComparativeCloses(n) == [i \in 1..n |-> IF i % 2 = 1 THEN 100 + 10 * i ELSE 100 + 10 * (i - 2)]

ComparativeFrames ==
    {Frame(AllColumns, "object", d, ComparativeCloses(Len(d))) :
        d \in ComparativeDateColumns}
    \cup {Frame(AllColumns \ {"date"}, "object", <<>>, ComparativeCloses(1))}

ComparativeDicts ==
    UNION {{[i \in 1..k |-> [symbol |-> CompSymbols[i], frame |-> fs[i]]] :
              fs \in [1..k -> ComparativeFrames]} : k \in 0..MaxSymbols}

ComparativeCalls ==
    {[phase |-> "called", op |-> "create_comparative_chart", data_dict |-> d] :
        d \in ComparativeDicts}

\* what process_dataframe_dates can give for the tables of data_dict from
\* entry i on
RECURSIVE ComparativeOutcomesFrom(_, _)
ComparativeOutcomesFrom(data_dict, i) ==
    IF i > Len(data_dict) THEN {<<>>}
    ELSE {<<out>> \o rest : out \in process_dataframe_dates(data_dict[i].frame, "date"),
                            rest \in ComparativeOutcomesFrom(data_dict, i + 1)}

ComparativeOutcomes(data_dict) == ComparativeOutcomesFrom(data_dict, 1)

ComparativeReturned(call, outs, c, traces) ==
    [phase |-> "returned", op |-> call.op, data_dict |-> call.data_dict, outs |-> outs,
     raised |-> c.raised, error |-> c.error, path |-> c.path,
     traces |-> IF c.raised THEN <<>> ELSE traces]

ComparativeDone(call, outs, c) ==
    /\ chart' = ComparativeReturned(call, outs, c,
                                    IF c.raised THEN <<>>
                                    ELSE comparative_figure(call.data_dict, outs))
    /\ dirExists' = c.dirExists
    /\ files' = IF c.raised THEN files ELSE files \cup {c.path}
    /\ UNCHANGED <<nrm, summaryFile, lastSummary, result, requests>>

create_comparative_chart_figure ==
    /\ chart.phase = "called"
    /\ \E outs \in ComparativeOutcomes(chart.data_dict), env \in Envs(dirExists) :
          ComparativeDone(chart, outs,
                          comparative_chart(chart.data_dict, outs, dirExists, env))

InitComparative ==
    /\ NormalizerIdle
    /\ PipelineIdle
    /\ chart \in ComparativeCalls

NextComparative == create_comparative_chart_figure

SpecComparative == InitComparative /\ [][NextComparative]_vars

-----------------------------------------------------------------------------
(* Properties of create_comparative_chart (checked under SpecComparative) *)

\* y holds, for every close, its change in percent from the first close
PercentChanges(y, closes) ==
    /\ Len(y) = Len(closes)
    /\ \A k \in 1..Len(closes) :
          /\ y[k].den > 0
          /\ y[k].num * closes[1] = y[k].den * (closes[k] - closes[1]) * 100

\* the trace of entry is made of the records of entry alone
OwnSeries(trace, entry, out) ==
    /\ trace.name = <<entry.symbol>>
    /\ trace.x = KeptDates(entry.frame, out.index)
    /\ NonDecreasing(trace.x)
    /\ PercentChanges(trace.y, KeptCloses(entry.frame, out.index))
    /\ trace.y[1] = Float(0)

\* C12: the figure of the comparative chart has one line per symbol of the
\* mapping; each of its values is (close / first_close - 1) * 100 with
\* first_close the close of the earliest-dated record of the same series
\* after normalization, so every line starts at 0 and is made of the records
\* of its own series only, whatever the other series of the mapping are.
C12_ComparativeNormalization ==
    FigureBuilt("create_comparative_chart") =>
        /\ Len(chart.traces) = Len(chart.data_dict)
        /\ \A j \in 1..Len(chart.data_dict) :
              OwnSeries(chart.traces[j], chart.data_dict[j], chart.outs[j])

\* two symbols; the first has close 110 on the later day given first and
\* close 100 on the earlier day: its line is 0, 10; the other line has three
\* values
C12_Witness ==
    /\ FigureBuilt("create_comparative_chart")
    /\ Len(chart.data_dict) = 2
    /\ chart.data_dict[1].frame.close = <<110, 100>>
    /\ chart.outs[1].index = <<2, 1>>
    /\ chart.traces[1].y = <<Float(0), Float(10)>>
    /\ Len(chart.traces[2].y) = 3

=============================================================================
